---------------------------- MODULE Spec2Model ----------------------------
(***************************************************************************)
(* Executor::evalConstantExpr (lib/Core/ExecutorUtil.cpp): the folder of   *)
(* LLVM constant expressions into KLEE constant expressions.               *)
(*                                                                         *)
(* The recursion of evalConstantExpr is modelled by an explicit call       *)
(* stack: one frame per active call, holding the locals op1, op2, op3 and, *)
(* for GetElementPtr, base, the type iterator ii, index and addend.        *)
(*                                                                         *)
(* The expression builders (ConstantExpr::Add, ::ZExt, FConstantExpr::FAdd *)
(* ...), Executor::evalConstant for non-expression constants and           *)
(* Executor::getWidthForLLVMType live outside ExecutorUtil.cpp; they are   *)
(* modelled from the design document.  Floating-point constants are        *)
(* restricted to integral values, for which every IEEE-754 operation used  *)
(* here is exact; where a builder leaves the outcome open (division by     *)
(* zero, an inexact quotient, an out-of-range conversion) the builder      *)
(* operator yields Undef and the run ends in status "undefined".           *)
(*                                                                         *)
(* All integer quantities are kept small enough for exact arithmetic: the  *)
(* C++ type unsigned has UnsignedBits bits, and uint64_t and the wider of  *)
(* the two pointer widths have twice as many.                              *)
(***************************************************************************)
EXTENDS Integers, Sequences, FiniteSets, TLC

VARIABLES
    root,          \* the llvm::ConstantExpr handed to the outermost call
    pointerWidth,  \* Context::get().getPointerWidth()
    NDEBUG,        \* whether the build compiles assert() away
    stack,         \* the active calls of evalConstantExpr, outermost first
    status,        \* "running", "returned", "abort", "assert", "undefined"
    result,        \* the value returned by the outermost call
    errs,          \* what was written to llvm::errs() / dump()
    fcalls         \* the requests made to the float expression builder

vars == <<root, pointerWidth, NDEBUG, stack, status, result, errs, fcalls>>

---------------------------------------------------------------------------
(* Bounds *)

\* bits of the C++ type unsigned; uint64_t has twice as many
UnsignedBits == 4

\* the longest index list of a generated GetElementPtr
MaxSteps == 2

U64Bits == 2 * UnsignedBits

\* the pointer widths of the targets: one as wide as unsigned, one as uint64_t
PointerWidths == {UnsignedBits, U64Bits}

---------------------------------------------------------------------------
(* Expr: constant expressions of the engine *)

Pow2(n) == 2 ^ n

\* ref<Expr>(0)
Null == [k |-> "null", w |-> 0, v |-> 0]

\* what a builder yields where its behaviour is left open
Undef == [k |-> "undef", w |-> 0, v |-> 0]

\* ConstantExpr::alloc(v, w): the value is truncated to the width
alloc(v, w) == [k |-> "I", w |-> w, v |-> v % Pow2(w)]

\* FConstantExpr of format width w holding the integral value v
falloc(v, w) == [k |-> "F", w |-> w, v |-> v]

\* the two's-complement reading of a width-w bit pattern
Signed(v, w) == IF v >= Pow2(w - 1) THEN v - Pow2(w) ELSE v

\* Expr::isTrue: a width-1 constant holding 1
isTrue(e) == e.k = "I" /\ e.w = 1 /\ e.v = 1

Bool(b) == alloc(IF b THEN 1 ELSE 0, 1)

\* ConstantExpr::Extract(0, w)
Extract(e, w) == alloc(e.v % Pow2(w), w)

\* ConstantExpr::ZExt(w): APInt zextOrTrunc
ZExt(e, w) == alloc(e.v, w)

\* ConstantExpr::SExt(w): APInt sextOrTrunc
SExt(e, w) == alloc(Signed(e.v, e.w) + Pow2(w) * Pow2(e.w), w)

Add(a, b) == alloc(a.v + b.v, a.w)

\* a - b as a + (two's complement of b)
Sub(a, b) == alloc(a.v + (Pow2(b.w) - b.v), a.w)

Mul(a, b) == alloc(a.v * b.v, a.w)

UDiv(a, b) == IF b.v = 0 THEN Undef ELSE alloc(a.v \div b.v, a.w)

URem(a, b) == IF b.v = 0 THEN Undef ELSE alloc(a.v % b.v, a.w)

Abs(x) == IF x < 0 THEN -x ELSE x

\* the quotient rounded toward zero
TruncDiv(x, y) ==
    IF (x < 0) = (y < 0) THEN Abs(x) \div Abs(y) ELSE -(Abs(x) \div Abs(y))

SDiv(a, b) ==
    IF b.v = 0 THEN Undef
    ELSE alloc(TruncDiv(Signed(a.v, a.w), Signed(b.v, b.w)) + Pow2(a.w), a.w)

SRem(a, b) ==
    IF b.v = 0 THEN Undef
    ELSE LET x == Signed(a.v, a.w)
             y == Signed(b.v, b.w)
         IN alloc((x - y * TruncDiv(x, y)) + Pow2(a.w), a.w)

RECURSIVE BitOp(_, _, _, _)
BitOp(f, x, y, n) ==
    IF n = 0 THEN 0
    ELSE LET bx == x % 2
             by == y % 2
             bit == CASE f = "and" -> IF bx = 1 /\ by = 1 THEN 1 ELSE 0
                      [] f = "or" -> IF bx = 1 \/ by = 1 THEN 1 ELSE 0
                      [] OTHER -> IF bx # by THEN 1 ELSE 0
         IN bit + 2 * BitOp(f, x \div 2, y \div 2, n - 1)

And(a, b) == alloc(BitOp("and", a.v, b.v, a.w), a.w)
Or(a, b) == alloc(BitOp("or", a.v, b.v, a.w), a.w)
Xor(a, b) == alloc(BitOp("xor", a.v, b.v, a.w), a.w)

\* APInt shifts: an amount of the width or more shifts every bit out
Shl(a, b) == IF b.v >= a.w THEN alloc(0, a.w) ELSE alloc(a.v * Pow2(b.v), a.w)

LShr(a, b) == IF b.v >= a.w THEN alloc(0, a.w) ELSE alloc(a.v \div Pow2(b.v), a.w)

AShr(a, b) ==
    LET s == IF b.v >= a.w THEN a.w ELSE b.v
        x == Signed(a.v, a.w)
        q == (x - (x % Pow2(s))) \div Pow2(s)
    IN alloc(q + Pow2(a.w), a.w)

Eq(a, b) == Bool(a.v = b.v)
Ne(a, b) == Bool(a.v # b.v)
Ugt(a, b) == Bool(a.v > b.v)
Uge(a, b) == Bool(a.v >= b.v)
Ult(a, b) == Bool(a.v < b.v)
Ule(a, b) == Bool(a.v <= b.v)
Sgt(a, b) == Bool(Signed(a.v, a.w) > Signed(b.v, b.w))
Sge(a, b) == Bool(Signed(a.v, a.w) >= Signed(b.v, b.w))
Slt(a, b) == Bool(Signed(a.v, a.w) < Signed(b.v, b.w))
Sle(a, b) == Bool(Signed(a.v, a.w) <= Signed(b.v, b.w))

---------------------------------------------------------------------------
(* FConstantExpr: integral floating-point values, on which the operations  *)
(* below are exact under every rounding mode                               *)

FAdd(a, b, rm) == falloc(a.v + b.v, a.w)
FSub(a, b, rm) == falloc(a.v - b.v, a.w)
FMul(a, b, rm) == falloc(a.v * b.v, a.w)

FDiv(a, b, rm) ==
    IF b.v = 0 \/ Abs(a.v) % Abs(b.v) # 0 THEN Undef
    ELSE falloc(TruncDiv(a.v, b.v), a.w)

\* fmod: the remainder has the sign of the dividend
FRem(a, b, rm) ==
    IF b.v = 0 THEN Undef ELSE falloc(a.v - b.v * TruncDiv(a.v, b.v), a.w)

FExt(a, w, rm) == falloc(a.v, w)
UToF(a, w, rm) == falloc(a.v, w)
SToF(a, w, rm) == falloc(Signed(a.v, a.w), w)

FToU(a, w, rm) == IF a.v < 0 \/ a.v >= Pow2(w) THEN Undef ELSE alloc(a.v, w)

FToS(a, w, rm) ==
    IF a.v < -Pow2(w - 1) \/ a.v >= Pow2(w - 1) THEN Undef
    ELSE alloc(a.v + Pow2(w), w)

\* no operand is a NaN: the ordered and the unordered predicate agree
FOeq(a, b) == Bool(a.v = b.v)
FOgt(a, b) == Bool(a.v > b.v)
FOge(a, b) == Bool(a.v >= b.v)
FOlt(a, b) == Bool(a.v < b.v)
FOle(a, b) == Bool(a.v <= b.v)
FOne(a, b) == Bool(a.v # b.v)
FOrd(a, b) == Bool(TRUE)
FUno(a, b) == Bool(FALSE)
FUeq(a, b) == Bool(a.v = b.v)
FUgt(a, b) == Bool(a.v > b.v)
FUge(a, b) == Bool(a.v >= b.v)
FUlt(a, b) == Bool(a.v < b.v)
FUle(a, b) == Bool(a.v <= b.v)
FUne(a, b) == Bool(a.v # b.v)

---------------------------------------------------------------------------
(* llvm::Constant: the input *)

IntTy(bits) == [cat |-> "int", bits |-> bits]
FpTy(bits) == [cat |-> "fp", bits |-> bits]
PtrTy == [cat |-> "ptr", bits |-> 0]

ConstantInt(bits, v) ==
    [kind |-> "ConstantInt", opcode |-> "", ty |-> IntTy(bits), ops |-> <<>>,
     pred |-> "", path |-> <<>>, v |-> v]

ConstantFP(bits, v) ==
    [kind |-> "ConstantFP", opcode |-> "", ty |-> FpTy(bits), ops |-> <<>>,
     pred |-> "", path |-> <<>>, v |-> v]

\* a global, standing for the address it was given
GlobalValue(addr) ==
    [kind |-> "GlobalValue", opcode |-> "", ty |-> PtrTy, ops |-> <<>>,
     pred |-> "", path |-> <<>>, v |-> addr]

\* llvm::ConstantExpr
CE(opcode, ty, ops) ==
    [kind |-> "ConstantExpr", opcode |-> opcode, ty |-> ty, ops |-> ops,
     pred |-> "", path |-> <<>>, v |-> 0]

Cmp(opcode, pred, a, b) ==
    [kind |-> "ConstantExpr", opcode |-> opcode, ty |-> IntTy(1),
     ops |-> <<a, b>>, pred |-> pred, path |-> <<>>, v |-> 0]

\* one step of the gep_type_iterator: the aggregate indexed by this operand
StructStep(offsets) == [agg |-> "struct", offsets |-> offsets, size |-> 0]
SeqStep(size) == [agg |-> "seq", offsets |-> <<>>, size |-> size]

GEP(base, indices, path) ==
    [kind |-> "ConstantExpr", opcode |-> "GetElementPtr", ty |-> PtrTy,
     ops |-> <<base>> \o indices, pred |-> "", path |-> path, v |-> 0]

isConstantExpr(c) == c.kind = "ConstantExpr"

IntBinOps ==
    {"Add", "Sub", "Mul", "SDiv", "UDiv", "SRem", "URem", "And", "Or", "Xor",
     "Shl", "LShr", "AShr"}

FloatBinOps == {"FAdd", "FSub", "FMul", "FDiv", "FRem"}

FloatConvOps == {"FPTrunc", "FPExt", "UIToFP", "SIToFP", "FPToUI", "FPToSI"}

CastOps == {"Trunc", "ZExt", "SExt", "BitCast", "IntToPtr", "PtrToInt"}

\* the case labels of the switch on ce->getOpcode()
Supported ==
    CastOps \cup IntBinOps \cup FloatBinOps \cup FloatConvOps
        \cup {"GetElementPtr", "ICmp", "Select", "FCmp"}

\* constant-expression opcodes of LLVM with no case label
Unsupported == {"ExtractElement", "InsertValue"}

ICmpPredicates ==
    {"ICMP_EQ", "ICMP_NE", "ICMP_UGT", "ICMP_UGE", "ICMP_ULT", "ICMP_ULE",
     "ICMP_SGT", "ICMP_SGE", "ICMP_SLT", "ICMP_SLE"}

FCmpPredicates ==
    {"FCMP_OEQ", "FCMP_OGT", "FCMP_OGE", "FCMP_OLT", "FCMP_OLE", "FCMP_ONE",
     "FCMP_ORD", "FCMP_UNO", "FCMP_UEQ", "FCMP_UGT", "FCMP_UGE", "FCMP_ULT",
     "FCMP_ULE", "FCMP_UNE"}

\* predicates of llvm::CmpInst with no case label
OtherICmpPredicates == {"BAD_ICMP_PREDICATE"}
OtherFCmpPredicates == {"FCMP_FALSE", "FCMP_TRUE"}

RECURSIVE Depth(_)
Depth(c) ==
    IF ~isConstantExpr(c) THEN 0
    ELSE LET RECURSIVE MaxOf(_)
             MaxOf(i) ==
                 IF i > Len(c.ops) THEN 0
                 ELSE LET d == Depth(c.ops[i])
                          m == MaxOf(i + 1)
                      IN IF d > m THEN d ELSE m
         IN 1 + MaxOf(1)

---------------------------------------------------------------------------
(* The collaborators of evalConstantExpr *)

\* Executor::getWidthForLLVMType: a pointer type has the pointer width
getWidthForLLVMType(ty) == IF ty.cat = "ptr" THEN pointerWidth ELSE ty.bits

\* Context::get().getPointerWidth()
getPointerWidth == pointerWidth

\* Executor::evalConstant on a constant that is no ConstantExpr
evalConstant(c) ==
    CASE c.kind = "ConstantInt" -> alloc(c.v, c.ty.bits)
      [] c.kind = "ConstantFP" -> falloc(c.v, c.ty.bits)
      [] OTHER -> alloc(c.v, pointerWidth)

\* StructLayout::getElementOffset(field), a uint64_t
getElementOffset(step, field) == step.offsets[field + 1] % Pow2(U64Bits)

\* DataLayout::getTypeAllocSize(element type), a uint64_t
getTypeAllocSize(step) == step.size % Pow2(U64Bits)

---------------------------------------------------------------------------
(* The cases of the switch on ce->getOpcode() *)

foldTrunc(ty, op1) == Extract(op1, getWidthForLLVMType(ty))
foldZExt(ty, op1) == ZExt(op1, getWidthForLLVMType(ty))
foldSExt(ty, op1) == SExt(op1, getWidthForLLVMType(ty))
foldBitCast(ty, op1) == op1
foldIntToPtr(ty, op1) == ZExt(op1, getWidthForLLVMType(ty))
\* variant: PtrToInt handled like BitCast, keeping the operand's width
foldPtrToInt_asBitCast(ty, op1) == op1
foldPtrToInt(ty, op1) == ZExt(op1, getWidthForLLVMType(ty))

foldAdd(op1, op2) == Add(op1, op2)
\* variant: the operands of Sub exchanged
foldSub_swapped(op1, op2) == Sub(op2, op1)
foldSub(op1, op2) == Sub(op1, op2)
foldMul(op1, op2) == Mul(op1, op2)

foldBinary(opcode, op1, op2) ==
    CASE opcode = "Add" -> foldAdd(op1, op2)
      [] opcode = "Sub" -> foldSub(op1, op2)
      [] opcode = "Mul" -> foldMul(op1, op2)
      [] opcode = "SDiv" -> SDiv(op1, op2)
      [] opcode = "UDiv" -> UDiv(op1, op2)
      [] opcode = "SRem" -> SRem(op1, op2)
      [] opcode = "URem" -> URem(op1, op2)
      [] opcode = "And" -> And(op1, op2)
      [] opcode = "Or" -> Or(op1, op2)
      [] opcode = "Xor" -> Xor(op1, op2)
      [] opcode = "Shl" -> Shl(op1, op2)
      [] opcode = "LShr" -> LShr(op1, op2)
      [] opcode = "AShr" -> AShr(op1, op2)

\* variant: the branches of Select exchanged
foldSelect_swapped(op1, op2, op3) == IF isTrue(op1) THEN op3 ELSE op2

foldSelect(op1, op2, op3) == IF isTrue(op1) THEN op2 ELSE op3

\* the integer cases other than GetElementPtr and ICmp
foldInt(ce, op1, op2, op3) ==
    CASE ce.opcode = "Trunc" -> foldTrunc(ce.ty, op1)
      [] ce.opcode = "ZExt" -> foldZExt(ce.ty, op1)
      [] ce.opcode = "SExt" -> foldSExt(ce.ty, op1)
      [] ce.opcode = "BitCast" -> foldBitCast(ce.ty, op1)
      [] ce.opcode = "IntToPtr" -> foldIntToPtr(ce.ty, op1)
      [] ce.opcode = "PtrToInt" -> foldPtrToInt(ce.ty, op1)
      [] ce.opcode = "Select" -> foldSelect(op1, op2, op3)
      [] OTHER -> foldBinary(ce.opcode, op1, op2)

\* the switch on ce->getPredicate() of ICmp; the default label has no
\* statement of its own once assert() is compiled away and falls through
\* to the first case
foldICmp(pred, op1, op2) ==
    CASE pred = "ICMP_EQ" -> Eq(op1, op2)
      [] pred = "ICMP_NE" -> Ne(op1, op2)
      [] pred = "ICMP_UGT" -> Ugt(op1, op2)
      [] pred = "ICMP_UGE" -> Uge(op1, op2)
      [] pred = "ICMP_ULT" -> Ult(op1, op2)
      [] pred = "ICMP_ULE" -> Ule(op1, op2)
      [] pred = "ICMP_SGT" -> Sgt(op1, op2)
      [] pred = "ICMP_SGE" -> Sge(op1, op2)
      [] pred = "ICMP_SLT" -> Slt(op1, op2)
      [] pred = "ICMP_SLE" -> Sle(op1, op2)
      [] OTHER -> Eq(op1, op2)

\* variant: the conversions called without a rounding mode
roundingModeArg_binaryOnly(opcode) ==
    IF opcode \in FloatBinOps THEN "rmNearestTiesToEven" ELSE "none"

\* the rounding-mode argument each case passes to the float builder;
\* "none" where the call has no such argument
roundingModeArg(opcode) ==
    IF opcode \in FloatBinOps \cup FloatConvOps THEN "rmNearestTiesToEven"
    ELSE "none"

\* the float cases other than FCmp; FPTrunc falls through to FPExt
foldFloat(ce, op1, op2) ==
    LET rm == roundingModeArg(ce.opcode)
        w == getWidthForLLVMType(ce.ty)
    IN CASE ce.opcode = "FAdd" -> FAdd(op1, op2, rm)
         [] ce.opcode = "FSub" -> FSub(op1, op2, rm)
         [] ce.opcode = "FMul" -> FMul(op1, op2, rm)
         [] ce.opcode = "FDiv" -> FDiv(op1, op2, rm)
         [] ce.opcode = "FRem" -> FRem(op1, op2, rm)
         [] ce.opcode = "FPTrunc" -> FExt(op1, w, rm)
         [] ce.opcode = "FPExt" -> FExt(op1, w, rm)
         [] ce.opcode = "UIToFP" -> UToF(op1, w, rm)
         [] ce.opcode = "SIToFP" -> SToF(op1, w, rm)
         [] ce.opcode = "FPToUI" -> FToU(op1, w, rm)
         [] ce.opcode = "FPToSI" -> FToS(op1, w, rm)

\* the switch on ce->getPredicate() of FCmp, with the same default label
foldFCmp(pred, op1, op2) ==
    CASE pred = "FCMP_OEQ" -> FOeq(op1, op2)
      [] pred = "FCMP_OGT" -> FOgt(op1, op2)
      [] pred = "FCMP_OGE" -> FOge(op1, op2)
      [] pred = "FCMP_OLT" -> FOlt(op1, op2)
      [] pred = "FCMP_OLE" -> FOle(op1, op2)
      [] pred = "FCMP_ONE" -> FOne(op1, op2)
      [] pred = "FCMP_ORD" -> FOrd(op1, op2)
      [] pred = "FCMP_UNO" -> FUno(op1, op2)
      [] pred = "FCMP_UEQ" -> FUeq(op1, op2)
      [] pred = "FCMP_UGT" -> FUgt(op1, op2)
      [] pred = "FCMP_UGE" -> FUge(op1, op2)
      [] pred = "FCMP_ULT" -> FUlt(op1, op2)
      [] pred = "FCMP_ULE" -> FUle(op1, op2)
      [] pred = "FCMP_UNE" -> FUne(op1, op2)
      [] OTHER -> FOeq(op1, op2)

\* the builder method a float case calls
builderMethod(ce) ==
    CASE ce.opcode \in {"FPTrunc", "FPExt"} -> "FExt"
      [] ce.opcode = "UIToFP" -> "UToF"
      [] ce.opcode = "SIToFP" -> "SToF"
      [] ce.opcode = "FPToUI" -> "FToU"
      [] ce.opcode = "FPToSI" -> "FToS"
      [] ce.opcode = "FCmp" ->
            IF ce.pred \in FCmpPredicates THEN ce.pred ELSE "FCMP_OEQ"
      [] OTHER -> ce.opcode

\* one request to the float builder, as the case makes it
floatRequest(ce) ==
    [opcode |-> ce.opcode, method |-> builderMethod(ce),
     rm |-> roundingModeArg(ce.opcode)]

(* GetElementPtr *)

\* ref<ConstantExpr> base = cast<ConstantExpr>(op1)->ZExt(pointer width)
gepBase(op1) == ZExt(op1, getPointerWidth)

\* the struct branch: the addend is the offset of the field
structAddend(step, ci) == alloc(getElementOffset(step, ci.v), getPointerWidth)

\* unsigned elementSize = getTypeAllocSize(...): the uint64_t is narrowed
elementSize(step) == getTypeAllocSize(step) % Pow2(UnsignedBits)

\* ConstantExpr::alloc(elementSize, pointer width)
elementSizeExpr(step) == alloc(elementSize(step), getPointerWidth)

\* variant: the index sign-extended
convertIndex_signed(index) == SExt(index, getPointerWidth)

\* index = index->ZExt(pointer width)
convertIndex(index) == ZExt(index, getPointerWidth)

\* addend = index->Mul(...)
seqAddend(index, step) == Mul(index, elementSizeExpr(step))

\* base = base->Add(addend)
accumulate(base, addend) == Add(base, addend)

\* variant: the iterator never advanced
nextStep_stuck(ii) == ii

\* ++ii
nextStep(ii) == ii + 1

---------------------------------------------------------------------------
(* The calls of evalConstantExpr *)

\* the locals of one call, as they are on entry
Frame(ce) ==
    [ce |-> ce, pc |-> "operands", n |-> 0,
     op1 |-> Null, op2 |-> Null, op3 |-> Null,
     base |-> Null, ii |-> 0, index |-> Null, addend |-> Null,
     esize |-> Null, indices |-> <<>>, rv |-> Null]

\* indices keeps, per step of a GetElementPtr, the index as evalConstant
\* returned it (Null for a struct step); esize is the element-size constant
\* of the last sequential step

Top == stack[Len(stack)]

SetTop(f) == [stack EXCEPT ![Len(stack)] = f]

\* the operands evaluated before the switch: the first three at most
numToEval(ce) == IF Len(ce.ops) > 3 THEN 3 ELSE Len(ce.ops)

\* op1, op2, op3 are assigned in this order
withOperand(f, val) ==
    CASE f.n = 0 -> [f EXCEPT !.op1 = val, !.n = 1]
      [] f.n = 1 -> [f EXCEPT !.op2 = val, !.n = 2]
      [] OTHER -> [f EXCEPT !.op3 = val, !.n = 3]

Running == status = "running" /\ stack # <<>>

AtSwitch == Running /\ Top.pc = "operands" /\ Top.n = numToEval(Top.ce)

\* the case returns val, or the builder left the outcome open
Finish(val) ==
    IF val.k = "undef"
    THEN /\ status' = "undefined"
         /\ stack' = stack
    ELSE /\ status' = status
         /\ stack' = SetTop([Top EXCEPT !.rv = val, !.pc = "ret"])

\* if (numOperands > i) op_i = evalConstant(ce->getOperand(i)), the operand
\* being no ConstantExpr
EvalOperand ==
    /\ Running
    /\ Top.pc = "operands"
    /\ Top.n < numToEval(Top.ce)
    /\ ~isConstantExpr(Top.ce.ops[Top.n + 1])
    /\ stack' = SetTop(withOperand(Top, evalConstant(Top.ce.ops[Top.n + 1])))
    /\ UNCHANGED <<root, pointerWidth, NDEBUG, status, result, errs, fcalls>>

\* the same, the operand being a ConstantExpr: the recursive call
CallOperand ==
    /\ Running
    /\ Top.pc = "operands"
    /\ Top.n < numToEval(Top.ce)
    /\ isConstantExpr(Top.ce.ops[Top.n + 1])
    /\ stack' = Append(stack, Frame(Top.ce.ops[Top.n + 1]))
    /\ UNCHANGED <<root, pointerWidth, NDEBUG, status, result, errs, fcalls>>

\* variant: no abort() in the default case, so that control reaches the
\* return op1 that ends the function
Default_noAbort ==
    /\ AtSwitch
    /\ Top.ce.opcode \notin Supported
    /\ errs' = errs \o <<[text |-> "dump", node |-> Top.ce],
                         [text |-> "error: unknown ConstantExpr type",
                          node |-> Top.ce],
                         [text |-> "opcode: ", node |-> Top.ce]>>
    /\ status' = status
    /\ stack' = SetTop([Top EXCEPT !.rv = Top.op1, !.pc = "ret"])
    /\ UNCHANGED <<root, pointerWidth, NDEBUG, result, fcalls>>

\* default: ce->dump(); llvm::errs() << ...; abort();
Default ==
    /\ AtSwitch
    /\ Top.ce.opcode \notin Supported
    /\ errs' = errs \o <<[text |-> "dump", node |-> Top.ce],
                         [text |-> "error: unknown ConstantExpr type",
                          node |-> Top.ce],
                         [text |-> "opcode: ", node |-> Top.ce]>>
    /\ status' = "abort"
    /\ UNCHANGED <<root, pointerWidth, NDEBUG, stack, result, fcalls>>

\* the casts, the binary integer operations and Select
FoldInt ==
    /\ AtSwitch
    /\ Top.ce.opcode \in CastOps \cup IntBinOps \cup {"Select"}
    /\ Finish(foldInt(Top.ce, Top.op1, Top.op2, Top.op3))
    /\ UNCHANGED <<root, pointerWidth, NDEBUG, result, errs, fcalls>>

\* case Instruction::ICmp
ICmp ==
    /\ AtSwitch
    /\ Top.ce.opcode = "ICmp"
    /\ IF Top.ce.pred \notin ICmpPredicates /\ ~NDEBUG
       THEN /\ status' = "assert"
            /\ errs' = Append(errs, [text |-> "unhandled ICmp predicate",
                                     node |-> Top.ce])
            /\ stack' = stack
       ELSE /\ Finish(foldICmp(Top.ce.pred, Top.op1, Top.op2))
            /\ errs' = errs
    /\ UNCHANGED <<root, pointerWidth, NDEBUG, result, fcalls>>

\* the float arithmetic and the float conversions
FoldFloat ==
    /\ AtSwitch
    /\ Top.ce.opcode \in FloatBinOps \cup FloatConvOps
    /\ fcalls' = Append(fcalls, floatRequest(Top.ce))
    /\ Finish(foldFloat(Top.ce, Top.op1, Top.op2))
    /\ UNCHANGED <<root, pointerWidth, NDEBUG, result, errs>>

\* case Instruction::FCmp
FCmp ==
    /\ AtSwitch
    /\ Top.ce.opcode = "FCmp"
    /\ IF Top.ce.pred \notin FCmpPredicates /\ ~NDEBUG
       THEN /\ status' = "assert"
            /\ errs' = Append(errs, [text |-> "unhandled FCmp predicate",
                                     node |-> Top.ce])
            /\ stack' = stack
            /\ fcalls' = fcalls
       ELSE /\ Finish(foldFCmp(Top.ce.pred, Top.op1, Top.op2))
            /\ fcalls' = Append(fcalls, floatRequest(Top.ce))
            /\ errs' = errs
    /\ UNCHANGED <<root, pointerWidth, NDEBUG, result>>

\* case Instruction::GetElementPtr: base, and the iterator at gep_type_begin
GepBegin ==
    /\ AtSwitch
    /\ Top.ce.opcode = "GetElementPtr"
    /\ stack' = SetTop([Top EXCEPT !.base = gepBase(Top.op1), !.ii = 1,
                                   !.indices = [i \in 1..Len(Top.ce.path) |-> Null],
                                   !.pc = "gep"])
    /\ UNCHANGED <<root, pointerWidth, NDEBUG, status, result, errs, fcalls>>

AtStep(agg) ==
    /\ Running
    /\ Top.pc = "gep"
    /\ Top.ii <= Len(Top.ce.path)
    /\ Top.ce.path[Top.ii].agg = agg

\* one iteration on a struct type
GepStruct ==
    /\ AtStep("struct")
    /\ LET step == Top.ce.path[Top.ii]
           ci == Top.ce.ops[Top.ii + 1]
           addend == structAddend(step, ci)
       IN stack' = SetTop([Top EXCEPT !.addend = addend,
                                      !.base = accumulate(Top.base, addend),
                                      !.ii = nextStep(Top.ii)])
    /\ UNCHANGED <<root, pointerWidth, NDEBUG, status, result, errs, fcalls>>

\* one iteration on a sequential type, from the folded index on
seqIteration(f, index) ==
    LET step == f.ce.path[f.ii]
        converted == convertIndex(index)
        addend == seqAddend(converted, step)
    IN [f EXCEPT !.index = converted, !.esize = elementSizeExpr(step),
                 !.addend = addend, !.base = accumulate(f.base, addend),
                 !.indices = [f.indices EXCEPT ![f.ii] = index],
                 !.ii = nextStep(f.ii), !.pc = "gep"]

\* one iteration on a sequential type whose index is no ConstantExpr
GepIndex ==
    /\ AtStep("seq")
    /\ ~isConstantExpr(Top.ce.ops[Top.ii + 1])
    /\ stack' = SetTop(seqIteration(Top, evalConstant(Top.ce.ops[Top.ii + 1])))
    /\ UNCHANGED <<root, pointerWidth, NDEBUG, status, result, errs, fcalls>>

\* evalConstant(ii.getOperand()) on a ConstantExpr: the recursive call
GepCallIndex ==
    /\ AtStep("seq")
    /\ isConstantExpr(Top.ce.ops[Top.ii + 1])
    /\ stack' = Append(SetTop([Top EXCEPT !.pc = "index"]),
                       Frame(Top.ce.ops[Top.ii + 1]))
    /\ UNCHANGED <<root, pointerWidth, NDEBUG, status, result, errs, fcalls>>

\* ii == ie: return base
GepEnd ==
    /\ Running
    /\ Top.pc = "gep"
    /\ Top.ii > Len(Top.ce.path)
    /\ stack' = SetTop([Top EXCEPT !.rv = Top.base, !.pc = "ret"])
    /\ UNCHANGED <<root, pointerWidth, NDEBUG, status, result, errs, fcalls>>

\* the caller's locals once the call it waits for has returned val
resume(f, val) ==
    IF f.pc = "index" THEN seqIteration(f, val) ELSE withOperand(f, val)

\* a return statement: the value goes to the caller
Return ==
    /\ Running
    /\ Top.pc = "ret"
    /\ IF Len(stack) = 1
       THEN /\ stack' = <<>>
            /\ result' = Top.rv
            /\ status' = "returned"
       ELSE /\ stack' = [i \in 1..(Len(stack) - 1) |->
                           IF i = Len(stack) - 1
                           THEN resume(stack[i], Top.rv) ELSE stack[i]]
            /\ result' = result
            /\ status' = status
    /\ UNCHANGED <<root, pointerWidth, NDEBUG, errs, fcalls>>

---------------------------------------------------------------------------
(* The constant expressions folded: every well-formed node over a set of   *)
(* operands, the nodes LLVM can build that have no case label, and         *)
(* GetElementPtr nodes over every index list of up to MaxSteps steps       *)

\* the deepest chain of nested expressions generated
MaxDepth == 3

IntWidths == {1, 4, 8}
FpWidths == {32, 64}

IntLeaves ==
    {ConstantInt(1, 0), ConstantInt(1, 1), ConstantInt(4, 0), ConstantInt(4, 3),
     ConstantInt(4, 15), ConstantInt(8, 10), ConstantInt(8, 250)}

FpLeaves == {ConstantFP(32, -3), ConstantFP(32, 2), ConstantFP(64, 6)}

PtrLeaves == {GlobalValue(0), GlobalValue(11), GlobalValue(250)}

Leaves == IntLeaves \cup FpLeaves \cup PtrLeaves

\* allocation sizes of element types: the last does not fit unsigned
ElemSizes == {1, 4, Pow2(UnsignedBits) + 1}

\* the field offsets of the struct types
Layouts == {<<0, 4, 17>>}

OfCat(S, cat) == {c \in S : c.ty.cat = cat}

Pairs(S, cat) == {p \in OfCat(S, cat) \X OfCat(S, cat) : p[1].ty = p[2].ty}

NodesOver(S) ==
    LET ints == OfCat(S, "int")
        fps == OfCat(S, "fp")
        ptrs == OfCat(S, "ptr")
        ipairs == Pairs(S, "int")
        fpairs == Pairs(S, "fp")
        pairs == ipairs \cup fpairs \cup Pairs(S, "ptr")
    IN UNION {
        {CE(op, p[1].ty, <<p[1], p[2]>>) : op \in IntBinOps, p \in ipairs},
        {Cmp("ICmp", pr, p[1], p[2]) :
            pr \in ICmpPredicates \cup OtherICmpPredicates, p \in ipairs},
        {CE("Trunc", IntTy(q[1]), <<q[2]>>) :
            q \in {x \in IntWidths \X ints : x[2].ty.bits > x[1]}},
        {CE(op, IntTy(q[1]), <<q[2]>>) :
            op \in {"ZExt", "SExt"},
            q \in {x \in IntWidths \X ints : x[2].ty.bits < x[1]}},
        {CE("BitCast", a.ty, <<a>>) : a \in ints \cup ptrs},
        {CE("IntToPtr", PtrTy, <<a>>) : a \in ints},
        {CE("PtrToInt", IntTy(w), <<a>>) : w \in IntWidths, a \in ptrs},
        {CE("Select", p[1].ty, <<c, p[1], p[2]>>) :
            c \in {x \in ints : x.ty.bits = 1}, p \in pairs},
        {CE(op, p[1].ty, <<p[1], p[2]>>) : op \in FloatBinOps, p \in fpairs},
        {Cmp("FCmp", pr, p[1], p[2]) :
            pr \in FCmpPredicates \cup OtherFCmpPredicates, p \in fpairs},
        {CE("FPTrunc", FpTy(q[1]), <<q[2]>>) :
            q \in {x \in FpWidths \X fps : x[2].ty.bits > x[1]}},
        {CE("FPExt", FpTy(q[1]), <<q[2]>>) :
            q \in {x \in FpWidths \X fps : x[2].ty.bits < x[1]}},
        {CE(op, FpTy(w), <<a>>) :
            op \in {"UIToFP", "SIToFP"}, w \in FpWidths, a \in ints},
        {CE(op, IntTy(w), <<a>>) :
            op \in {"FPToUI", "FPToSI"}, w \in IntWidths, a \in fps},
        {CE(op, a.ty, <<a>>) : op \in Unsupported, a \in S}
       }

\* one index of a GetElementPtr: the type it steps into and its operand
SeqChoices(Idx) ==
    {[step |-> SeqStep(sz), operand |-> i] : sz \in ElemSizes, i \in Idx}

StructChoices ==
    UNION {{[step |-> StructStep(offs), operand |-> ConstantInt(8, f)] :
              f \in 0..(Len(offs) - 1)} : offs \in Layouts}

\* the first index steps over the pointer, the later ones into any aggregate
RECURSIVE PathsOf(_, _)
PathsOf(n, Idx) ==
    IF n = 1 THEN {<<c>> : c \in SeqChoices(Idx)}
    ELSE {Append(p, c) :
            p \in PathsOf(n - 1, Idx), c \in SeqChoices(Idx) \cup StructChoices}

MkGEP(b, p) ==
    GEP(b, [i \in 1..Len(p) |-> p[i].operand], [i \in 1..Len(p) |-> p[i].step])

GEPsOver(Bases, Idx) ==
    {MkGEP(b, p) :
        b \in Bases, p \in UNION {PathsOf(n, Idx) : n \in 1..MaxSteps}}

\* expressions used as operands of other expressions
SubExprs ==
    {CE("Add", IntTy(8), <<ConstantInt(8, 250), ConstantInt(8, 10)>>),
     CE("Mul", IntTy(4), <<ConstantInt(4, 3), ConstantInt(4, 15)>>),
     CE("UDiv", IntTy(4), <<ConstantInt(4, 3), ConstantInt(4, 0)>>),
     Cmp("ICmp", "ICMP_ULT", ConstantInt(4, 3), ConstantInt(4, 15)),
     Cmp("ICmp", "ICMP_SLT", ConstantInt(4, 3), ConstantInt(4, 15)),
     Cmp("ICmp", "BAD_ICMP_PREDICATE", ConstantInt(4, 3), ConstantInt(4, 3)),
     CE("ExtractElement", IntTy(8), <<ConstantInt(8, 10)>>),
     CE("FAdd", FpTy(32), <<ConstantFP(32, 2), ConstantFP(32, -3)>>),
     CE("SIToFP", FpTy(32), <<ConstantInt(4, 15)>>),
     GEP(GlobalValue(11), <<ConstantInt(4, 3)>>, <<SeqStep(4)>>)}

FewLeaves ==
    {ConstantInt(1, 1), ConstantInt(4, 3), ConstantInt(8, 10),
     ConstantFP(32, 2), GlobalValue(11)}

RECURSIVE Nest(_)
Nest(n) ==
    IF n = 0 THEN ConstantInt(8, 10)
    ELSE CE("Add", IntTy(8), <<Nest(n - 1), ConstantInt(8, 250)>>)

Chains ==
    {Nest(n) : n \in 1..MaxDepth}
        \cup {GEP(GlobalValue(11), <<Nest(n)>>, <<SeqStep(4)>>) :
                n \in 1..MaxDepth}

Roots ==
    UNION {NodesOver(Leaves),
           NodesOver(SubExprs \cup FewLeaves),
           GEPsOver({GlobalValue(11), GlobalValue(250)},
                    {ConstantInt(4, 15), ConstantInt(8, 2), ConstantInt(8, 250)}),
           GEPsOver({GEP(GlobalValue(11), <<ConstantInt(4, 3)>>, <<SeqStep(4)>>)},
                    {CE("Add", IntTy(8), <<ConstantInt(8, 250), ConstantInt(8, 10)>>),
                     CE("ExtractElement", IntTy(8), <<ConstantInt(8, 10)>>),
                     ConstantInt(8, 2)}),
           Chains}

---------------------------------------------------------------------------
(* The specification *)

Init ==
    /\ root \in Roots
    /\ pointerWidth \in PointerWidths
    /\ NDEBUG \in BOOLEAN
    /\ stack = <<Frame(root)>>
    /\ status = "running"
    /\ result = Null
    /\ errs = <<>>
    /\ fcalls = <<>>

Next ==
    \/ EvalOperand
    \/ CallOperand
    \/ Default
    \/ FoldInt
    \/ ICmp
    \/ FoldFloat
    \/ FCmp
    \/ GepBegin
    \/ GepStruct
    \/ GepIndex
    \/ GepCallIndex
    \/ GepEnd
    \/ Return

Spec == Init /\ [][Next]_vars

\* a call in progress runs on: nothing suspends the folder
FairSpec == Spec /\ WF_vars(Next)

---------------------------------------------------------------------------
(* Properties *)

Frames == {stack[i] : i \in 1..Len(stack)}

Returning(f) == f.pc = "ret"

\* C1: the value a call returns has the width of the node's declared type,
\* for every opcode with a case label and every well-formed node
C1_ResultWidth ==
    /\ \A f \in Frames :
          Returning(f) =>
              /\ f.rv.k \in {"I", "F"}
              /\ f.rv.w = (IF f.ce.ty.cat = "ptr" THEN pointerWidth
                           ELSE f.ce.ty.bits)
    /\ status = "returned" =>
          result.w = (IF root.ty.cat = "ptr" THEN pointerWidth ELSE root.ty.bits)

\* a PtrToInt to a type narrower than the pointer has returned
C1_Witness ==
    /\ status = "returned"
    /\ root.opcode = "PtrToInt"
    /\ root.ty.bits < pointerWidth
    /\ result.w = root.ty.bits

\* C10: Add, Sub and Mul yield the exact result reduced modulo 2^w
C10_Wraparound ==
    \A f \in Frames :
        Returning(f) /\ f.ce.opcode \in {"Add", "Sub", "Mul"} =>
            LET a == f.op1.v
                b == f.op2.v
                w == f.ce.ty.bits
                exact == CASE f.ce.opcode = "Add" -> a + b
                           [] f.ce.opcode = "Sub" -> a - b
                           [] OTHER -> a * b
            IN /\ f.op1.w = w
               /\ f.op2.w = w
               /\ f.rv.k = "I"
               /\ f.rv.w = w
               /\ f.rv.v \in 0..(Pow2(w) - 1)
               /\ (f.rv.v - exact) % Pow2(w) = 0

\* Add of 250 and 10 at width 8 has yielded 4
C10_Witness ==
    \E f \in Frames :
        /\ Returning(f)
        /\ f.ce.opcode = "Add"
        /\ f.op1 = [k |-> "I", w |-> 8, v |-> 250]
        /\ f.op2 = [k |-> "I", w |-> 8, v |-> 10]
        /\ f.rv = [k |-> "I", w |-> 8, v |-> 4]

IsGep(f) == f.ce.opcode = "GetElementPtr"

\* the addend the design asks of step i: the field's offset, or the index
\* times the allocation size of the element type
RequiredAddend(f, i) ==
    LET step == f.ce.path[i]
    IN IF step.agg = "struct" THEN step.offsets[f.ce.ops[i + 1].v + 1]
       ELSE f.indices[i].v * step.size

RECURSIVE RequiredSum(_, _)
RequiredSum(f, i) ==
    IF i = 0 THEN 0 ELSE RequiredSum(f, i - 1) + RequiredAddend(f, i)

\* C2: a GetElementPtr returns the zero-extended first operand plus one
\* addend per index: the field offset for a struct step, the index times
\* the allocation size of the element type for an array or pointer step
C2_GepSum ==
    \A f \in Frames :
        IsGep(f) /\ Returning(f) =>
            /\ f.rv.w = pointerWidth
            /\ f.rv.v = ((f.op1.v % Pow2(pointerWidth))
                           + RequiredSum(f, Len(f.ce.path))) % Pow2(pointerWidth)

\* the same, for element types whose allocation size fits unsigned
C2_GepSumSmall ==
    \A f \in Frames :
        /\ IsGep(f)
        /\ Returning(f)
        /\ \A i \in 1..Len(f.ce.path) : f.ce.path[i].size < Pow2(UnsignedBits)
        => f.rv.v = ((f.op1.v % Pow2(pointerWidth))
                       + RequiredSum(f, Len(f.ce.path))) % Pow2(pointerWidth)

AtPointerWidth(e) == e = Null \/ (e.k = "I" /\ e.w = pointerWidth)

\* C3: in a GetElementPtr the base, every addend, every converted index and
\* every element-size constant have the pointer width, and an index is
\* zero-extended before it is multiplied
C3_GepPointerWidth ==
    \A f \in Frames :
        IsGep(f) =>
            /\ AtPointerWidth(f.base)
            /\ AtPointerWidth(f.addend)
            /\ AtPointerWidth(f.index)
            /\ AtPointerWidth(f.esize)
            /\ f.pc \in {"gep", "index", "ret"} => f.base # Null
            /\ f.ii > 1 => f.addend # Null
            /\ (f.pc \in {"gep", "ret"} /\ f.ii > 1
                  /\ f.ce.path[f.ii - 1].agg = "seq") =>
                  LET raw == f.indices[f.ii - 1]
                  IN /\ f.index # Null
                     /\ f.esize # Null
                     /\ f.index.v = raw.v % Pow2(pointerWidth)
                     /\ f.addend.v = (f.index.v * f.esize.v) % Pow2(pointerWidth)

\* an index narrower than the pointer, with its top bit set, was converted
C3_Witness ==
    \E f \in Frames :
        /\ IsGep(f)
        /\ f.pc = "gep"
        /\ f.ii > 1
        /\ f.ce.path[f.ii - 1].agg = "seq"
        /\ f.indices[f.ii - 1].w < pointerWidth
        /\ f.indices[f.ii - 1].v >= Pow2(f.indices[f.ii - 1].w - 1)
        /\ f.index.v = f.indices[f.ii - 1].v
        /\ f.index.w = pointerWidth

UnhandledPredicate(ce) ==
    \/ ce.opcode = "ICmp" /\ ce.pred \notin ICmpPredicates
    \/ ce.opcode = "FCmp" /\ ce.pred \notin FCmpPredicates

\* C4: an ICmp or FCmp whose predicate has no case label never returns a
\* value
C4_UnhandledPredicateFatal ==
    /\ \A f \in Frames : UnhandledPredicate(f.ce) => f.rv = Null
    /\ status = "returned" => ~UnhandledPredicate(root)

\* C5: a node whose opcode has no case label never returns a value; the
\* process is aborted after the dump of the node and the opcode
C5_UnsupportedAborts ==
    /\ \A f \in Frames :
          f.ce.opcode \notin Supported => f.pc = "operands" /\ f.rv = Null
    /\ status = "returned" => root.opcode \in Supported
    /\ status = "abort" =>
          /\ Top.ce.opcode \notin Supported
          /\ errs = <<[text |-> "dump", node |-> Top.ce],
                      [text |-> "error: unknown ConstantExpr type",
                       node |-> Top.ce],
                      [text |-> "opcode: ", node |-> Top.ce]>>
    /\ (status # "running" /\ Len(stack) = 1
          /\ stack[1].ce.opcode \notin Supported) => status = "abort"
    /\ (status = "running" /\ errs # <<>>) => FALSE

\* the process was aborted on an unsupported operand of another node
C5_Witness ==
    /\ status = "abort"
    /\ Len(stack) = 2
    /\ Top.ce.opcode = "ExtractElement"
    /\ Len(errs) = 3

IsSelect(f) == f.ce.opcode = "Select"

TrueConstant == [k |-> "I", w |-> 1, v |-> 1]

\* the value of operand i of a call, Null while it is not evaluated
OperandValue(f, i) ==
    CASE i = 1 -> f.op1
      [] i = 2 -> f.op2
      [] OTHER -> f.op3

\* C6: a Select returns its second operand when the first folded to the true
\* constant and its third otherwise; the three operands are folded in
\* operand order, all of them before the choice
C6_Select ==
    \A f \in Frames :
        IsSelect(f) =>
            /\ f.op2 # Null => f.op1 # Null
            /\ f.op3 # Null => f.op2 # Null
            /\ \A i \in 1..3 :
                  (OperandValue(f, i) # Null /\ ~isConstantExpr(f.ce.ops[i]))
                      => OperandValue(f, i) = evalConstant(f.ce.ops[i])
            /\ Returning(f) =>
                  /\ f.op1 # Null
                  /\ f.op2 # Null
                  /\ f.op3 # Null
                  /\ f.rv = (IF f.op1 = TrueConstant THEN f.op2 ELSE f.op3)

\* a Select on a true condition has returned its second operand, the third
\* being an expression that was folded as well
C6_Witness ==
    \E f \in Frames :
        /\ IsSelect(f)
        /\ Returning(f)
        /\ f.op1 = TrueConstant
        /\ isConstantExpr(f.ce.ops[3])
        /\ f.op3 # Null
        /\ f.op3 # f.op2
        /\ f.rv = f.op2

C9_Terminates ==
    /\ <>(status # "running")
    /\ [](Len(stack) <= Depth(root))

\* a GetElementPtr whose index is a nest of MaxDepth expressions returned
C9_Witness ==
    /\ status = "returned"
    /\ root.opcode = "GetElementPtr"
    /\ isConstantExpr(root.ops[2])
    /\ Depth(root) = MaxDepth + 1

===========================================================================
